---- MODULE Spec2Model ----
(***************************************************************************)
(* Zariski-Van Kampen pipeline of sage/schemes/curves/zariski_vankampen.py *)
(*                                                                         *)
(*   braid_from_piecewise : SpecBraid, SpecRoundTrip                       *)
(*   followstrand         : SpecFollow, SpecFollowFair                     *)
(*   braid_in_segment     : SpecMatch   (root matching)                    *)
(*   fundamental_group    : SpecFG                                         *)
(*                                                                         *)
(* Numbers are exact rationals <<num, den>> (den > 0, lowest terms); a     *)
(* complex number is <<re, im>>; a strand sample is <<t, c>>.              *)
(***************************************************************************)
EXTENDS Integers, Sequences, FiniteSets, TLC

VARIABLES
    \* braid_from_piecewise
    strands,      \* the argument (L)
    ti,           \* the time variable i of the resampling loop
    totalpoints,  \* totalpoints[j]: resampled points [re, im] of strand j
    indices,      \* indices[j]: next sample of strand j (1-based here)
    iseg,         \* the interval index i of the crossing loop (0-based)
    cruces,       \* crossings [t, k, j, s] of the current interval
    P,            \* the running permutation
    crossesl,     \* tied crossings (gap, k, j, s)
    braid,        \* the signed generator word
    lastc,        \* the crossing c popped last, (gap, k, j, s)
    tsel,         \* cruces[0][0] of the tied crossings being consumed
    pc,           \* position in braid_from_piecewise
    phase,        \* 1: the strands as given, 2: the strands traversed backwards
    firstBraid,   \* the word of phase 1, kept for the round trip
    \* followstrand
    fsargs,       \* the arguments <<f, x0, x1, y0a>> of the outermost call
    solves,       \* the precisions at which the external solver succeeds
    prec,         \* prec of the innermost call
    depth,        \* number of calls of followstrand that have not returned
    calls,        \* the solver calls made: <<primitive, arguments, prec>>
    points,       \* the value returned
    fpc,          \* position in followstrand
    \* braid_in_segment (root matching)
    y0s,          \* exact roots at x0
    y0aps,        \* first points of the strands
    y1s,          \* exact roots at x1
    y1aps,        \* last points of the strands
    used,         \* the exact roots taken so far in the running loop
    initialstrands,
    finalstrands,
    mi,           \* number of passes made of the running loop
    mpc,          \* position in braid_in_segment
    \* fundamental_group
    g,            \* the polynomial, a coefficient for each monomial x^a y^b
    d,            \* its degree in y
    projective,
    segs,
    vertices,
    ngens,        \* the rank of the free group F
    rels,
    running,      \* the calls of braid_in_segment that have not finished
    braidscomputed, \* their results ((args, kwds), output), as they come
    folded,       \* number of results the for loop has taken
    presentation, \* the value returned
    gpc           \* position in fundamental_group

bvars == <<strands, ti, totalpoints, indices, iseg, cruces, P, crossesl,
           braid, lastc, tsel, pc, phase, firstBraid>>

svars == <<fsargs, solves, prec, depth, calls, points, fpc>>

mvars == <<y0s, y0aps, y1s, y1aps, used, initialstrands, finalstrands, mi, mpc>>

gvars == <<g, d, projective, segs, vertices, ngens, rels, running,
           braidscomputed, folded, presentation, gpc>>

vars == <<bvars, svars, mvars, gvars>>

-----------------------------------------------------------------------------
(* Bounds of the model *)

MaxStrands == 3
MaxRe == 2
MaxIm == 1
MaxMid == 1
MaxDoublings == 4
MaxArg == 2
MaxRoots == 2
MaxCoord == 1
MaxDeg == 2
MaxCoef == 1
MaxTerms == 2
MaxVerts == 3
MaxSegs == 2
MaxBraidLen == 1

-----------------------------------------------------------------------------
(* Exact rational arithmetic *)

Abs(x) == IF x < 0 THEN -x ELSE x

RECURSIVE GCD(_, _)
GCD(a, b) == IF b = 0 THEN a ELSE GCD(b, a % b)

\* (numerator, denominator and their divisor are bound as values, once)
Rat(num, den) ==
    CHOOSE r \in {<<((IF dd < 0 THEN -1 ELSE 1) * n) \div common,
                    ((IF dd < 0 THEN -1 ELSE 1) * dd) \div common>> :
                      <<n, dd, common>> \in {<<num, den, GCD(Abs(num), Abs(den))>>}} : TRUE

Q(n) == <<n, 1>>
RAdd(a, b) == Rat(a[1] * b[2] + b[1] * a[2], a[2] * b[2])
RSub(a, b) == Rat(a[1] * b[2] - b[1] * a[2], a[2] * b[2])
RMul(a, b) == Rat(a[1] * b[1], a[2] * b[2])
RDiv(a, b) == Rat(a[1] * b[2], a[2] * b[1])
RLess(a, b) == a[1] * b[2] < b[1] * a[2]

RECURSIVE RMinFrom(_, _)
RMinFrom(s, k) ==
    IF k = Len(s) THEN s[k]
    ELSE LET m == RMinFrom(s, k + 1) IN IF RLess(m, s[k]) THEN m ELSE s[k]
RMin(s) == RMinFrom(s, 1)

(* Python's comparison of two lists (or tuples) of numbers *)
RECURSIVE LexLessFrom(_, _, _)
LexLessFrom(a, b, k) ==
    IF k > Len(a) \/ k > Len(b) THEN Len(a) < Len(b)
    ELSE IF RLess(a[k], b[k]) THEN TRUE
    ELSE IF RLess(b[k], a[k]) THEN FALSE
    ELSE LexLessFrom(a, b, k + 1)
LexLess(a, b) == LexLessFrom(a, b, 1)

(* list.sort(): a stable sort of <<key, item>> entries by key *)
RECURSIVE InsertStable(_, _)
InsertStable(e, s) ==
    IF s = <<>> THEN <<e>>
    ELSE IF LexLess(e[1], Head(s)[1]) THEN <<e>> \o s
    ELSE <<Head(s)>> \o InsertStable(e, Tail(s))

RECURSIVE SortKeyedRev(_)
SortKeyedRev(s) ==
    IF s = <<>> THEN <<>>
    ELSE InsertStable(Head(s), SortKeyedRev(Tail(s)))

SortKeyed(s) == SortKeyedRev(s)

Items(s) == [x \in 1..Len(s) |-> s[x][2]]

-----------------------------------------------------------------------------
(* braid_from_piecewise *)

NStrands == Len(strands)

\* val[p] for a Python index p
At(val, p) == val[p + 1]

\* xaux + (yaux - xaux) * (i - aaux) / (baux - aaux), on complex numbers
\* (v is the pair xaux, yaux and f is (i - aaux) / (baux - aaux), bound once)
Interpola(xaux, yaux, aaux, baux, i) ==
    CHOOSE r \in {<<RAdd(v[1][1], RMul(RSub(v[2][1], v[1][1]), f)),
                    RAdd(v[1][2], RMul(RSub(v[2][2], v[1][2]), f))>> :
                      <<v, f>> \in {<<<<xaux, yaux>>, RDiv(RSub(i, aaux), RSub(baux, aaux))>>}} : TRUE

\* (mutant) the interpolation starts from the first sample, not the previous
ResamplePointFromStart(val, idx, i) ==
    IF RLess(i, At(val, idx)[1])
    THEN Interpola(At(val, 0)[2], At(val, idx)[2],
                   At(val, 0)[1], At(val, idx)[1], i)
    ELSE At(val, idx)[2]

\* the point appended to totalpoints[j] by one pass of the while loop
ResamplePoint(val, idx, i) ==
    IF RLess(i, At(val, idx)[1])
    THEN Interpola(At(val, idx - 1)[2], At(val, idx)[2],
                   At(val, idx - 1)[1], At(val, idx)[1], i)
    ELSE At(val, idx)[2]

ResampleIndex(val, idx, i) ==
    IF RLess(i, At(val, idx)[1]) THEN idx ELSE idx + 1

sgn(x, y) == IF RLess(x, y) THEN 1 ELSE IF RLess(y, x) THEN -1 ELSE 0

\* M = [[l1[s], l2[s]] ...]; M.sort()
MKey(m) == <<m[1][1], m[1][2], m[2][1], m[2][2]>>
MSorted(tp, i) ==
    Items(SortKeyed([s \in 1..Len(tp) |->
                       LET m == <<tp[s][i + 1], tp[s][i + 2]>> IN <<MKey(m), m>>]))

\* the pairs (k, j) in the order of the two for loops (Python indices)
RECURSIVE LoopPairs(_, _, _)
LoopPairs(n, j, k) ==
    IF j >= n THEN <<>>
    ELSE IF k >= j THEN LoopPairs(n, j + 1, 0)
    ELSE <<<<k, j>>>> \o LoopPairs(n, j, k + 1)

\* (mutant) the ends compared by their real parts alone
InvertedByReal(M, k, j) == RLess(At(M, j)[2][1], At(M, k)[2][1])

\* line 124: l2[j] < l2[k]
Inverted(M, k, j) == LexLess(At(M, j)[2], At(M, k)[2])

CrossDen(M, k, j) ==
    RAdd(RSub(At(M, k)[2][1], At(M, k)[1][1]), RSub(At(M, j)[1][1], At(M, j)[2][1]))

CrossT(M, k, j) == RDiv(RSub(At(M, j)[1][1], At(M, k)[1][1]), CrossDen(M, k, j))

\* (mutant) the sign read at the start of the interval, not at the crossing
CrossSAtStart(M, k, j) == sgn(At(M, k)[1][2], At(M, j)[1][2])

CrossS(M, k, j) ==
    LET t == CrossT(M, k, j)
        one == RSub(Q(1), t)
    IN sgn(RAdd(RMul(At(M, k)[1][2], one), RMul(t, At(M, k)[2][2])),
           RAdd(RMul(At(M, j)[1][2], one), RMul(t, At(M, j)[2][2])))

CrossingPairs(M) ==
    SelectSeq(LoopPairs(Len(M), 0, 0), LAMBDA p : Inverted(M, p[1], p[2]))

DivisionByZero(M) ==
    \E x \in 1..Len(CrossingPairs(M)) :
        LET p == CrossingPairs(M)[x] IN CrossDen(M, p[1], p[2])[1] = 0

Cruces(M) ==
    LET ps == CrossingPairs(M)
    IN [x \in 1..Len(ps) |->
          <<CrossT(M, ps[x][1], ps[x][2]), ps[x][1], ps[x][2],
            CrossS(M, ps[x][1], ps[x][2])>>]

\* cruces.sort()
CruceKey(c) == <<c[1], Q(c[2]), Q(c[3]), Q(c[4])>>
SortCruces(cs) == Items(SortKeyed([x \in 1..Len(cs) |-> <<CruceKey(cs[x]), cs[x]>>]))

\* (P(c[2] + 1) - P(c[1] + 1), c[1], c[2], c[3]) for a crossing [t, k, j, s]
CrossEntry(perm, c) == <<perm[c[3] + 1] - perm[c[2] + 1], c[2], c[3], c[4]>>
\* the same for an entry (gap, k, j, s) of crossesl
ReEntry(perm, cr) == <<perm[cr[3] + 1] - perm[cr[2] + 1], cr[2], cr[3], cr[4]>>

\* (mutant) tied crossings sorted by their gap alone
CrossKeyGapOnly(c) == <<Q(c[1])>>

\* crossesl.sort()
CrossKey(c) == <<Q(c[1]), Q(c[2]), Q(c[3]), Q(c[4])>>
SortCrosses(cs) == Items(SortKeyed([x \in 1..Len(cs) |-> <<CrossKey(cs[x]), cs[x]>>]))

Min2(a, b) == IF a < b THEN a ELSE b

\* c[3] * min(map(P, [c[1] + 1, c[2] + 1]))
Generator(perm, c) == c[4] * Min2(perm[c[2] + 1], perm[c[3] + 1])

\* (mutant) the product taken in the other order, P * (a, b)
ThenSwap(perm, a, b) ==
    [x \in DOMAIN perm |->
        IF perm[x] = a THEN b ELSE IF perm[x] = b THEN a ELSE perm[x]]

\* G(Permutation([(a, b)])) * P, a product taken left to right
SwapThen(perm, a, b) ==
    [x \in DOMAIN perm |-> perm[IF x = a THEN b ELSE IF x = b THEN a ELSE x]]

IdPerm(n) == [x \in 1..n |-> x]

\* lines 83-86
Setup ==
    /\ pc = "start"
    /\ ti' = RMin([j \in 1..NStrands |-> At(strands[j], 1)[1]])
    /\ totalpoints' = [j \in 1..NStrands |-> <<At(strands[j], 0)[2]>>]
    /\ indices' = [j \in 1..NStrands |-> 1]
    /\ pc' = "resample"
    /\ UNCHANGED <<strands, iseg, cruces, P, crossesl, braid, lastc, tsel, phase,
                   firstBraid>>
    /\ UNCHANGED <<svars, mvars, gvars>>

\* lines 87-100: one pass of the while loop
ResampleStep ==
    /\ pc = "resample"
    /\ RLess(ti, Q(1))
    /\ totalpoints' = [j \in 1..NStrands |->
           Append(totalpoints[j], ResamplePoint(strands[j], indices[j], ti))]
    /\ indices' = [j \in 1..NStrands |-> ResampleIndex(strands[j], indices[j], ti)]
    /\ ti' = RMin([k \in 1..NStrands |-> At(strands[k], indices'[k])[1]])
    /\ UNCHANGED <<strands, iseg, cruces, P, crossesl, braid, lastc, tsel, pc, phase,
                   firstBraid>>
    /\ UNCHANGED <<svars, mvars, gvars>>

\* lines 102-106: the loop is left, the last sample of every strand is added
ClosePoints ==
    /\ pc = "resample"
    /\ ~RLess(ti, Q(1))
    /\ totalpoints' = [j \in 1..NStrands |->
           Append(totalpoints[j], strands[j][Len(strands[j])][2])]
    /\ braid' = <<>>
    /\ iseg' = 0
    /\ pc' = "interval"
    /\ UNCHANGED <<strands, ti, indices, cruces, P, crossesl, lastc, tsel, phase,
                   firstBraid>>
    /\ UNCHANGED <<svars, mvars, gvars>>

\* lines 114-130: the crossings of interval iseg
Interval ==
    /\ pc = "interval"
    /\ iseg < Len(totalpoints[1]) - 1
    /\ LET M == MSorted(totalpoints, iseg)
       IN IF DivisionByZero(M)
          THEN /\ pc' = "ZeroDivisionError"
               /\ UNCHANGED <<cruces, P, iseg>>
          ELSE IF Cruces(M) = <<>>
          THEN /\ iseg' = iseg + 1
               /\ UNCHANGED <<cruces, P, pc>>
          ELSE /\ cruces' = SortCruces(Cruces(M))
               /\ P' = IdPerm(NStrands)
               /\ pc' = "tied"
               /\ UNCHANGED iseg
    /\ UNCHANGED <<strands, ti, totalpoints, indices, crossesl, braid, lastc, tsel,
                   phase, firstBraid>>
    /\ UNCHANGED <<svars, mvars, gvars>>

\* lines 131-136: the crossings at the time of the first one left
Tied ==
    /\ pc = "tied"
    /\ cruces # <<>>
    /\ LET crucesl == SelectSeq(cruces, LAMBDA c : c[1] = cruces[1][1])
       IN /\ crossesl' = [x \in 1..Len(crucesl) |-> CrossEntry(P, crucesl[x])]
          /\ cruces' = SubSeq(cruces, Len(crucesl) + 1, Len(cruces))
    /\ tsel' = cruces[1][1]
    /\ pc' = "pop"
    /\ UNCHANGED <<strands, ti, totalpoints, indices, iseg, P, braid, lastc, phase,
                   firstBraid>>
    /\ UNCHANGED <<svars, mvars, gvars>>

\* line 131 false: the interval is finished
NextInterval ==
    /\ pc = "tied"
    /\ cruces = <<>>
    /\ iseg' = iseg + 1
    /\ pc' = "interval"
    /\ UNCHANGED <<strands, ti, totalpoints, indices, cruces, P, crossesl, braid,
                   lastc, tsel, phase, firstBraid>>
    /\ UNCHANGED <<svars, mvars, gvars>>

\* lines 137-143: one pass of the inner while loop
Pop ==
    /\ pc = "pop"
    /\ crossesl # <<>>
    /\ LET sorted == SortCrosses(crossesl)
           c == Head(sorted)
           newP == SwapThen(P, c[2] + 1, c[3] + 1)
       IN /\ braid' = Append(braid, Generator(P, c))
          /\ P' = newP
          /\ crossesl' = [x \in 1..(Len(sorted) - 1) |-> ReEntry(newP, sorted[x + 1])]
          /\ lastc' = c
    /\ UNCHANGED <<strands, ti, totalpoints, indices, iseg, cruces, tsel, pc, phase,
                   firstBraid>>
    /\ UNCHANGED <<svars, mvars, gvars>>

\* line 137 false: back to the outer while loop
PopDone ==
    /\ pc = "pop"
    /\ crossesl = <<>>
    /\ pc' = "tied"
    /\ UNCHANGED <<strands, ti, totalpoints, indices, iseg, cruces, P, crossesl,
                   braid, lastc, tsel, phase, firstBraid>>
    /\ UNCHANGED <<svars, mvars, gvars>>

\* lines 145-146: B(braid); a word with a 0 in it denotes no braid
Return ==
    /\ pc = "interval"
    /\ iseg >= Len(totalpoints[1]) - 1
    /\ pc' = IF \E x \in 1..Len(braid) : braid[x] = 0 THEN "ValueError" ELSE "done"
    /\ UNCHANGED <<strands, ti, totalpoints, indices, iseg, cruces, P, crossesl,
                   braid, lastc, tsel, phase, firstBraid>>
    /\ UNCHANGED <<svars, mvars, gvars>>

\* the same strands traversed backwards: t replaced by 1 - t, samples reversed
ReverseStrand(val) ==
    [x \in 1..Len(val) |->
        <<RSub(Q(1), val[Len(val) + 1 - x][1]), val[Len(val) + 1 - x][2]>>]

\* a second call, on the reversed strands
CallReversed ==
    /\ pc = "done"
    /\ phase = 1
    /\ phase' = 2
    /\ firstBraid' = braid
    /\ strands' = [j \in 1..NStrands |-> ReverseStrand(strands[j])]
    /\ pc' = "start"
    /\ UNCHANGED <<ti, totalpoints, indices, iseg, cruces, P, crossesl, braid, lastc,
                   tsel>>
    /\ UNCHANGED <<svars, mvars, gvars>>

(* The strands of a call: samples on a grid, t from 0 to 1 *)
Grid == {<<Q(re), Q(im)>> : re \in 0..MaxRe, im \in 0..MaxIm}
Half == <<1, 2>>
Third == <<1, 3>>
TwoPoint == {<<<<Q(0), a>>, <<Q(1), b>>>> : a \in Grid, b \in Grid}
\* two strands with breakpoints, on the grid of the points up to MaxMid
MidGrid == {<<Q(re), Q(im)>> : re \in 0..MaxMid, im \in 0..MaxMid}
Broken(m) == {<<<<Q(0), a>>, <<m, b>>, <<Q(1), c>>>> : a \in MidGrid, b \in MidGrid,
                                                      c \in MidGrid}
Straight == {<<<<Q(0), a>>, <<Q(1), b>>>> : a \in MidGrid, b \in MidGrid}

InitStrands ==
    \/ \E n \in 2..MaxStrands : strands \in [1..n -> TwoPoint]
    \/ strands \in {<<a, b>> : a \in Broken(Half) \cup Straight,
                               b \in Broken(Half) \cup Broken(Third) \cup Straight}

IdleBraid ==
    /\ strands = <<>>
    /\ ti = Q(0)
    /\ totalpoints = <<>>
    /\ indices = <<>>
    /\ iseg = 0
    /\ cruces = <<>>
    /\ P = <<>>
    /\ crossesl = <<>>
    /\ braid = <<>>
    /\ lastc = <<>>
    /\ tsel = Q(0)
    /\ pc = "idle"
    /\ phase = 1
    /\ firstBraid = <<>>

IdleFollow ==
    /\ fsargs = <<>>
    /\ solves = {}
    /\ prec = 0
    /\ depth = 0
    /\ calls = <<>>
    /\ points = <<>>
    /\ fpc = "idle"

IdleMatch ==
    /\ y0s = <<>>
    /\ y0aps = <<>>
    /\ y1s = <<>>
    /\ y1aps = <<>>
    /\ used = <<>>
    /\ initialstrands = <<>>
    /\ finalstrands = <<>>
    /\ mi = 0
    /\ mpc = "idle"

IdleGroup ==
    /\ g = <<>>
    /\ d = 0
    /\ projective = FALSE
    /\ segs = <<>>
    /\ vertices = <<>>
    /\ ngens = 0
    /\ rels = <<>>
    /\ running = {}
    /\ braidscomputed = <<>>
    /\ folded = 0
    /\ presentation = <<>>
    /\ gpc = "idle"

InitBraid ==
    /\ IdleFollow
    /\ IdleMatch
    /\ IdleGroup
    /\ InitStrands
    /\ ti = Q(0)
    /\ totalpoints = <<>>
    /\ indices = <<>>
    /\ iseg = 0
    /\ cruces = <<>>
    /\ P = <<>>
    /\ crossesl = <<>>
    /\ braid = <<>>
    /\ lastc = <<>>
    /\ tsel = Q(0)
    /\ pc = "start"
    /\ phase = 1
    /\ firstBraid = <<>>

NextBraid ==
    \/ Setup
    \/ ResampleStep
    \/ ClosePoints
    \/ Interval
    \/ Tied
    \/ NextInterval
    \/ Pop
    \/ PopDone
    \/ Return

SpecBraid == InitBraid /\ [][NextBraid]_vars

SpecRoundTrip == InitBraid /\ [][NextBraid \/ CallReversed]_vars

-----------------------------------------------------------------------------
(* followstrand *)

DefaultPrec == 53

\* the precisions 53, 106, 212, ... the model lets a call reach
Precisions == {DefaultPrec * 2^k : k \in 0..MaxDoublings}

\* what the solver returns for these arguments at this precision
SolverPoints(args, p) == <<"points", args, p>>

\* (mutant) the retry adds the default precision
RetryPrecLinear(p) == p + DefaultPrec

\* line 297: the precision of the retry
RetryPrec(p) == 2 * p

\* lines 291-294: the primitive called at a precision
Primitive(p) == IF p = DefaultPrec THEN "contpath" ELSE "contpath_mp"

\* lines 273-288: a call of followstrand sets up the coefficients
Enter ==
    /\ fpc = "enter"
    /\ prec \in Precisions
    /\ depth' = depth + 1
    /\ fpc' = "try"
    /\ UNCHANGED <<fsargs, solves, prec, calls, points>>
    /\ UNCHANGED <<bvars, mvars, gvars>>

\* lines 290-295: the solver is called and succeeds
SolverReturns ==
    /\ fpc = "try"
    /\ prec \in solves
    /\ calls' = Append(calls, <<Primitive(prec), fsargs, prec>>)
    /\ points' = SolverPoints(fsargs, prec)
    /\ fpc' = "return"
    /\ UNCHANGED <<fsargs, solves, prec, depth>>
    /\ UNCHANGED <<bvars, mvars, gvars>>

\* lines 290-296: the solver is called and fails
SolverFails ==
    /\ fpc = "try"
    /\ prec \notin solves
    /\ calls' = Append(calls, <<Primitive(prec), fsargs, prec>>)
    /\ fpc' = "except"
    /\ UNCHANGED <<fsargs, solves, prec, depth, points>>
    /\ UNCHANGED <<bvars, mvars, gvars>>

\* line 297: the handler calls followstrand again
Retry ==
    /\ fpc = "except"
    /\ prec' = RetryPrec(prec)
    /\ fpc' = "enter"
    /\ UNCHANGED <<fsargs, solves, depth, calls, points>>
    /\ UNCHANGED <<bvars, mvars, gvars>>

\* lines 295, 297: a call returns the points to its caller
Unwind ==
    /\ fpc = "return"
    /\ depth' = depth - 1
    /\ fpc' = IF depth = 1 THEN "returned" ELSE "return"
    /\ UNCHANGED <<fsargs, solves, prec, calls, points>>
    /\ UNCHANGED <<bvars, mvars, gvars>>

\* the precision has left the range the model follows; the code goes on
Beyond ==
    /\ fpc = "enter"
    /\ prec \notin Precisions
    /\ fpc' = "beyond"
    /\ UNCHANGED <<fsargs, solves, prec, depth, calls, points>>
    /\ UNCHANGED <<bvars, mvars, gvars>>

InitFollow ==
    /\ IdleBraid
    /\ IdleMatch
    /\ IdleGroup
    /\ fsargs \in (1..MaxArg) \X (1..MaxArg) \X (1..MaxArg) \X (1..MaxArg)
    /\ solves \in SUBSET Precisions
    /\ prec = DefaultPrec
    /\ depth = 0
    /\ calls = <<>>
    /\ points = <<>>
    /\ fpc = "enter"

NextFollow ==
    \/ Enter
    \/ SolverReturns
    \/ SolverFails
    \/ Retry
    \/ Unwind
    \/ Beyond

SpecFollow == InitFollow /\ [][NextFollow]_vars

\* the interpreter keeps running the call, and a solver call comes back
SpecFollowFair == SpecFollow /\ WF_vars(NextFollow)

-----------------------------------------------------------------------------
(* braid_in_segment: the strands' ends are matched to the exact roots *)

\* (a - b).norm(): the square of the absolute value
Norm(a, b) == (a[1] - b[1]) * (a[1] - b[1]) + (a[2] - b[2]) * (a[2] - b[2])

\* (mutant) tuples compared with the roots ordered by imaginary part first
DistKeyImFirst(ap, y) == <<Q(Norm(ap, y)), Q(y[2]), Q(y[1])>>

\* the order of the tuples ((yap - y).norm(), y): the distance, then the
\* root, an algebraic number, by real part and then imaginary part
DistKey(ap, y) == <<Q(Norm(ap, y)), Q(y[1]), Q(y[2])>>

\* sorted(distances)[0][1]
Nearest(roots, ap) ==
    SortKeyed([x \in 1..Len(roots) |-> <<DistKey(ap, roots[x]), roots[x]>>])[1][2]

\* y0 in used
InUsed(u, y) == \E x \in 1..Len(u) : u[x] = y

\* (mutant) the root taken is not recorded
UsedForgotten(u, y) == u

\* used.append(y0)
UsedAfter(u, y) == Append(u, y)

\* points with coordinates 0..MaxCoord
RootGrid == {<<re, im>> : re \in 0..MaxCoord, im \in 0..MaxCoord}
\* roots(multiplicities=False): distinct roots
RootLists(n) == {r \in [1..n -> RootGrid] : \A x, y \in 1..n : x # y => r[x] # r[y]}

\* lines 356-362: one pass of the loop over y0aps
MatchInitial ==
    /\ mpc = "initial"
    /\ mi < Len(y0aps)
    /\ LET y0ap == y0aps[mi + 1]
           y0 == Nearest(y0s, y0ap)
       IN IF InUsed(used, y0)
          THEN /\ mpc' = "ValueError"
               /\ UNCHANGED <<used, initialstrands, mi>>
          ELSE /\ used' = UsedAfter(used, y0)
               /\ initialstrands' =
                      Append(initialstrands, <<<<0, y0>>, <<1, y0ap>>>>)
               /\ mi' = mi + 1
               /\ UNCHANGED mpc
    /\ UNCHANGED <<y0s, y0aps, y1s, y1aps, finalstrands>>
    /\ UNCHANGED <<bvars, svars, gvars>>

\* lines 363-368: the initial braid is computed (braid_from_piecewise may
\* raise), the roots at x1 are found, the last points of the strands are
\* read and used is emptied
InitialBraid ==
    /\ mpc = "initial"
    /\ mi = Len(y0aps)
    /\ \/ /\ mpc' = "final"
          /\ y1s' \in RootLists(Len(y0s))
          /\ y1aps' \in [1..Len(y0s) -> RootGrid]
          /\ used' = <<>>
          /\ mi' = 0
       \/ /\ mpc' = "braid error"
          /\ UNCHANGED <<y1s, y1aps, used, mi>>
    /\ UNCHANGED <<y0s, y0aps, initialstrands, finalstrands>>
    /\ UNCHANGED <<bvars, svars, gvars>>

\* lines 369-375: one pass of the loop over y1aps
MatchFinal ==
    /\ mpc = "final"
    /\ mi < Len(y1aps)
    /\ LET y1ap == y1aps[mi + 1]
           y1 == Nearest(y1s, y1ap)
       IN IF InUsed(used, y1)
          THEN /\ mpc' = "ValueError"
               /\ UNCHANGED <<used, finalstrands, mi>>
          ELSE /\ used' = UsedAfter(used, y1)
               /\ finalstrands' =
                      Append(finalstrands, <<<<0, y1ap>>, <<1, y1>>>>)
               /\ mi' = mi + 1
               /\ UNCHANGED mpc
    /\ UNCHANGED <<y0s, y0aps, y1s, y1aps, initialstrands>>
    /\ UNCHANGED <<bvars, svars, gvars>>

\* lines 376-377: the final braid is computed and the product returned
ReturnProduct ==
    /\ mpc = "final"
    /\ mi = Len(y1aps)
    /\ \/ mpc' = "returned"
       \/ mpc' = "braid error"
    /\ UNCHANGED <<y0s, y0aps, y1s, y1aps, used, initialstrands, finalstrands, mi>>
    /\ UNCHANGED <<bvars, svars, gvars>>

InitMatch ==
    /\ IdleBraid
    /\ IdleFollow
    /\ IdleGroup
    /\ \E n \in 2..MaxRoots :
          /\ y0s \in RootLists(n)
          /\ y0aps \in [1..n -> RootGrid]
    /\ y1s = <<>>
    /\ y1aps = <<>>
    /\ used = <<>>
    /\ initialstrands = <<>>
    /\ finalstrands = <<>>
    /\ mi = 0
    /\ mpc = "initial"

NextMatch ==
    \/ MatchInitial
    \/ InitialBraid
    \/ MatchFinal
    \/ ReturnProduct

SpecMatch == InitMatch /\ [][NextMatch]_vars

-----------------------------------------------------------------------------
(* The braid group acting on the free group (Artin):                       *)
(*   s_j    : x_j -> x_j x_(j+1) x_j^-1,  x_(j+1) -> x_j                   *)
(*   s_j^-1 : x_j -> x_(j+1),  x_(j+1) -> x_(j+1)^-1 x_j x_(j+1)           *)
(* Words are Tietze lists, kept freely reduced.                            *)

RECURSIVE ReduceOnto(_, _)
ReduceOnto(done, rest) ==
    IF rest = <<>> THEN done
    ELSE IF done # <<>> /\ done[Len(done)] = -Head(rest)
         THEN ReduceOnto(SubSeq(done, 1, Len(done) - 1), Tail(rest))
         ELSE ReduceOnto(Append(done, Head(rest)), Tail(rest))
Reduce(w) == ReduceOnto(<<>>, w)

InverseWord(w) == [x \in 1..Len(w) |-> -w[Len(w) + 1 - x]]

\* the image of the generator x_g (g > 0) under the braid letter j
GenImage(j, e) ==
    IF j > 0 THEN IF e = j THEN <<e, e + 1, -e>>
                  ELSE IF e = j + 1 THEN <<e - 1>>
                  ELSE <<e>>
    ELSE IF e = -j THEN <<e + 1>>
         ELSE IF e = -j + 1 THEN <<-e, e - 1, e>>
         ELSE <<e>>

LetterImage(j, i) == IF i > 0 THEN GenImage(j, i) ELSE InverseWord(GenImage(j, -i))

RECURSIVE ActLetter(_, _)
ActLetter(j, t) ==
    IF t = <<>> THEN <<>> ELSE LetterImage(j, Head(t)) \o ActLetter(j, Tail(t))

\* x * b for a word x of the free group and a braid word b
RECURSIVE BraidAct(_, _)
BraidAct(x, b) ==
    IF b = <<>> THEN Reduce(x)
    ELSE BraidAct(Reduce(ActLetter(Head(b), x)), Tail(b))

TrivialBraid(b, n) == \A e \in 1..n : BraidAct(<<e>>, b) = <<e>>

-----------------------------------------------------------------------------
(* fundamental_group *)

Monomials == {m \in (0..MaxDeg) \X (0..MaxDeg) : m[1] + m[2] <= MaxDeg}

RECURSIVE Binomial(_, _)
Binomial(n, k) ==
    IF k = 0 \/ k = n THEN 1 ELSE Binomial(n - 1, k - 1) + Binomial(n - 1, k)

\* g.subs({x: x + y}): x^a y^b gets the terms of (x + y)^(a+k) y^(b-k)
RECURSIVE SubsCoef(_, _, _)
SubsCoef(poly, m, k) ==
    IF k > m[2] THEN 0
    ELSE poly[<<m[1] + k, m[2] - k>>] * Binomial(m[1] + k, k) + SubsCoef(poly, m, k + 1)
Subs(poly) == [m \in Monomials |-> SubsCoef(poly, m, 0)]

MaxOf(S) == CHOOSE v \in S : \A w \in S : w <= v

\* g.degree(y)
DegreeY(poly) == MaxOf({m[2] : m \in {m \in Monomials : poly[m] # 0}})

\* g.total_degree()
TotalDegree(poly) == MaxOf({m[1] + m[2] : m \in {m \in Monomials : poly[m] # 0}})

\* g.coefficient(y**d) in F: the coefficient of y^d has no x in it
LeadingInField(poly, deg) ==
    \A m \in Monomials : (m[2] = deg /\ m[1] > 0) => poly[m] = 0

\* line 445: the condition of the while loop
MustShift(poly, deg, proj) ==
    ~LeadingInField(poly, deg) \/ (proj /\ TotalDegree(poly) > deg)

\* flatten(segs)
RECURSIVE Flatten(_)
Flatten(ss) ==
    IF ss = <<>> THEN <<>> ELSE <<Head(ss)[1], Head(ss)[2]>> \o Flatten(Tail(ss))

Range(q) == {q[x] : x \in 1..Len(q)}

\* (mutant) the endpoints listed without the set
VertexListsRepeated(ss) == {Flatten(ss)}

\* list(set(flatten(segs))): the distinct endpoints, in any order
VertexLists(ss) ==
    LET V == Range(Flatten(ss))
    IN {q \in [1..Cardinality(V) -> V] : Range(q) = V}

\* vertices.index(v), counted from 0
Index(q, v) == (CHOOSE x \in 1..Len(q) : q[x] = v /\ \A z \in 1..(x - 1) : q[z] # v) - 1

\* (mutant) the generators 1..d-1 of range(1, d)
ProjectiveRelatorFromOne(deg) == [x \in 1..(deg - 1) |-> x + 1]

\* prod(F.gen(i) for i in range(d)), as a Tietze list
ProjectiveRelator(deg) == [x \in 1..deg |-> x]

Sign(a) == IF a > 0 THEN 1 ELSE IF a < 0 THEN -1 ELSE 0

\* (mutant) the letters of el1 taken as they are, not moved to the block of i
RelatorUnshifted(b, deg, i, j, k) ==
    LET el1 == BraidAct(<<k + 1>>, InverseWord(b))
        w2 == <<deg * j + k + 1>>
    IN Reduce(el1 \o InverseWord(w2))

\* lines 463-467: the relator of root k for a braid b from vertex i to vertex j
Relator(b, deg, i, j, k) ==
    LET el1 == BraidAct(<<k + 1>>, InverseWord(b))
        w1 == [x \in 1..Len(el1) |-> Sign(el1[x]) * deg * i + el1[x]]
        w2 == <<deg * j + k + 1>>
    IN Reduce(w1 \o InverseWord(w2))

RECURSIVE RelatorsFrom(_, _, _, _, _)
RelatorsFrom(b, deg, i, j, k) ==
    IF k >= deg THEN <<>>
    ELSE <<Relator(b, deg, i, j, k)>> \o RelatorsFrom(b, deg, i, j, k + 1)

\* (mutant) the segment taken by the place of the result in the sequence
SegmentByArrival(braidcomputed, nth) == segs[nth]

\* line 458: the segment of a result, read from the arguments that come with it
SegmentOf(braidcomputed, nth) == <<braidcomputed[1][1][2], braidcomputed[1][1][3]>>

\* the braids on deg strands a worker may return
RECURSIVE WordsUpTo(_, _)
WordsUpTo(letters, n) ==
    IF n = 0 THEN {<<>>}
    ELSE WordsUpTo(letters, n - 1) \cup
         {Append(w, a) : w \in WordsUpTo(letters, n - 1), a \in letters}
BraidWords(deg) ==
    WordsUpTo({a \in (1 - deg)..(deg - 1) : a # 0}, MaxBraidLen)

\* lines 441-444
Radical ==
    /\ gpc = "start"
    /\ d' = DegreeY(g)
    /\ gpc' = "shift"
    /\ UNCHANGED <<g, projective, segs, vertices, ngens, rels, running,
                   braidscomputed, folded, presentation>>
    /\ UNCHANGED <<bvars, svars, mvars>>

\* lines 445-447: one pass of the while loop
Shift ==
    /\ gpc = "shift"
    /\ MustShift(g, d, projective)
    /\ g' = Subs(g)
    /\ d' = DegreeY(g')
    /\ UNCHANGED <<projective, segs, vertices, ngens, rels, running,
                   braidscomputed, folded, presentation, gpc>>
    /\ UNCHANGED <<bvars, svars, mvars>>

\* lines 448-453: the segments around the discriminant (discrim and segments
\* are external: any list of segments), the vertices and the free group
Network ==
    /\ gpc = "shift"
    /\ ~MustShift(g, d, projective)
    /\ \E n \in 1..MaxSegs :
          segs' \in {ss \in [1..n -> (1..MaxVerts) \X (1..MaxVerts)] :
                        /\ \A x \in 1..n : ss[x][1] # ss[x][2]
                        /\ \A x, z \in 1..n :
                              x # z => {ss[x][1], ss[x][2]} # {ss[z][1], ss[z][2]}}
    /\ vertices' \in VertexLists(segs')
    /\ ngens' = d * Len(vertices')
    /\ rels' = <<>>
    /\ gpc' = "rels"
    /\ UNCHANGED <<g, d, projective, running, braidscomputed, folded, presentation>>
    /\ UNCHANGED <<bvars, svars, mvars>>

\* lines 454-456: the projective relator, and braid_in_segment is started on
\* every segment
Dispatch ==
    /\ gpc = "rels"
    /\ rels' = IF projective THEN <<ProjectiveRelator(d)>> ELSE rels
    /\ running' = {<<g, segs[x][1], segs[x][2]>> : x \in 1..Len(segs)}
    /\ braidscomputed' = <<>>
    /\ folded' = 0
    /\ gpc' = "collect"
    /\ UNCHANGED <<g, d, projective, segs, vertices, ngens, presentation>>
    /\ UNCHANGED <<bvars, svars, mvars>>

\* a worker returns its braid
WorkerReturns ==
    /\ gpc = "collect"
    /\ \E args \in running :
          /\ running' = running \ {args}
          /\ \E b \in BraidWords(d) :
                braidscomputed' = Append(braidscomputed, <<<<args, <<>>>>, b>>)
    /\ UNCHANGED <<g, d, projective, segs, vertices, ngens, rels, folded,
                   presentation, gpc>>
    /\ UNCHANGED <<bvars, svars, mvars>>

\* a worker raises (line 360 or 373, ...): the result holds no braid
WorkerRaises ==
    /\ gpc = "collect"
    /\ \E args \in running :
          /\ running' = running \ {args}
          /\ braidscomputed' = Append(braidscomputed, <<<<args, <<>>>>, "NO DATA">>)
    /\ UNCHANGED <<g, d, projective, segs, vertices, ngens, rels, folded,
                   presentation, gpc>>
    /\ UNCHANGED <<bvars, svars, mvars>>

\* lines 457-467: one pass of the for loop, on the next result
Fold ==
    /\ gpc = "collect"
    /\ folded < Len(braidscomputed)
    /\ LET braidcomputed == braidscomputed[folded + 1]
           seg == SegmentOf(braidcomputed, folded + 1)
           b == braidcomputed[2]
           i == Index(vertices, seg[1])
           j == Index(vertices, seg[2])
       IN IF b = "NO DATA"
          THEN /\ gpc' = "AttributeError"
               /\ UNCHANGED <<rels, folded>>
          ELSE /\ rels' = rels \o RelatorsFrom(b, d, i, j, 0)
               /\ folded' = folded + 1
               /\ UNCHANGED gpc
    /\ UNCHANGED <<g, d, projective, segs, vertices, ngens, running, braidscomputed,
                   presentation>>
    /\ UNCHANGED <<bvars, svars, mvars>>

\* lines 468-472: the quotient, simplified or not
Quotient ==
    /\ gpc = "collect"
    /\ running = {}
    /\ folded = Len(braidscomputed)
    /\ \E simplified \in BOOLEAN :
          presentation' = IF simplified THEN <<"simplified", ngens, rels>>
                                        ELSE <<"presentation", ngens, rels>>
    /\ gpc' = "done"
    /\ UNCHANGED <<g, d, projective, segs, vertices, ngens, rels, running,
                   braidscomputed, folded>>
    /\ UNCHANGED <<bvars, svars, mvars>>

\* f.radical(): polynomials in x and y with at most MaxTerms terms, the
\* coefficient of the leading monomial (by degree, then by the power of x)
\* positive
Polynomials ==
    {poly \in [Monomials -> (-MaxCoef)..MaxCoef] :
        /\ Cardinality({m \in Monomials : poly[m] # 0}) <= MaxTerms
        /\ \E m \in Monomials :
              /\ poly[m] > 0
              /\ \A z \in Monomials :
                    (z[1] + z[2] > m[1] + m[2] \/ (z[1] + z[2] = m[1] + m[2] /\ z[1] > m[1]))
                        => poly[z] = 0
        /\ \E m \in Monomials : poly[m] # 0 /\ m[1] > 0
        /\ \E m \in Monomials : poly[m] # 0 /\ m[2] > 0}

InitGroup ==
    /\ IdleBraid
    /\ IdleFollow
    /\ IdleMatch
    /\ g \in Polynomials
    /\ projective \in BOOLEAN
    /\ d = 0
    /\ segs = <<>>
    /\ vertices = <<>>
    /\ ngens = 0
    /\ rels = <<>>
    /\ running = {}
    /\ braidscomputed = <<>>
    /\ folded = 0
    /\ presentation = <<>>
    /\ gpc = "start"

NextGroup ==
    \/ Radical
    \/ Shift
    \/ Network
    \/ Dispatch
    \/ WorkerReturns
    \/ WorkerRaises
    \/ Fold
    \/ Quotient

SpecFG == InitGroup /\ [][NextGroup]_vars

-----------------------------------------------------------------------------
(* Claims on braid_from_piecewise *)

\* C5: every entry of the word is a non-zero integer of absolute value in
\* 1..n-1, also when sgn returns 0.
C5_EntriesAreGenerators ==
    \A x \in 1..Len(braid) : braid[x] # 0 /\ Abs(braid[x]) \in 1..(NStrands - 1)

\* C6: the braid of a strand set times the braid of the same strands
\* traversed backwards is the identity of the braid group.
C6_RoundTripTrivial ==
    (phase = 2 /\ pc = "done") => TrivialBraid(firstBraid \o braid, NStrands)

C6_Witness ==
    /\ phase = 2
    /\ pc = "done"
    /\ Len(firstBraid) >= 3
    /\ Len(totalpoints[1]) >= 3

\* C7: no selection step is ambiguous: the crossings of an interval are in
\* strictly increasing order of (time, left, right, sign), and no two tied
\* crossings have the same sort key (gap, left, right, sign), so each sort
\* has one outcome and the word is a function of the strands.
C7_SelectionUnambiguous ==
    /\ \A x, y \in 1..Len(cruces) :
          x < y => LexLess(CruceKey(cruces[x]), CruceKey(cruces[y]))
    /\ \A x, y \in 1..Len(crossesl) :
          x # y => \/ LexLess(CrossKey(crossesl[x]), CrossKey(crossesl[y]))
                   \/ LexLess(CrossKey(crossesl[y]), CrossKey(crossesl[x]))

\* three crossings at one time, two of them with the same gap
C7_Witness ==
    /\ pc = "pop"
    /\ Len(crossesl) = 3
    /\ \E x, y \in 1..3 : x # y /\ crossesl[x][1] = crossesl[y][1]

\* C10: a step that appends a generator takes a crossing whose strands are at
\* positions differing by exactly 1 under P, appends sign times the smaller
\* position (the left strand's), and swaps exactly these two strands in P.
C10_PopStep ==
    (pc = "pop" /\ crossesl # <<>>) =>
        LET c == lastc'
            k == c[2] + 1
            j == c[3] + 1
        IN /\ c[1] = 1
           /\ P[j] - P[k] = 1
           /\ Min2(P[k], P[j]) = P[k]
           /\ braid' = Append(braid, c[4] * P[k])
           /\ P' = [x \in DOMAIN P |->
                      IF x = k THEN P[j] ELSE IF x = j THEN P[k] ELSE P[x]]

\* C10: the crossings taken at one time are those of the least time left;
\* every crossing still to be consumed is strictly later.
C10_TiedStep ==
    (pc = "tied" /\ cruces # <<>>) =>
        /\ Len(crossesl') + Len(cruces') = Len(cruces)
        /\ crossesl' # <<>>
        /\ \A x \in 1..Len(crossesl') : cruces[x][1] = tsel'
        /\ \A x \in 1..Len(cruces') : RLess(tsel', cruces'[x][1])

C10_AdjacentInTimeOrder == [][C10_PopStep /\ C10_TiedStep]_vars

\* the second of three crossings tied at one time has been taken
C10_Witness ==
    /\ pc = "pop"
    /\ NStrands = 3
    /\ Len(totalpoints[1]) = 2
    /\ Len(braid) = 2
    /\ Len(crossesl) = 1
    /\ cruces = <<>>
    /\ lastc[1] = 1

-----------------------------------------------------------------------------
(* Claims on followstrand *)

\* the calls made so far are at 53, 106, 212, ..., each with the arguments
\* of the first, contpath at 53 and contpath_mp above, and all but the one
\* that ended the retries failed
C8_CallsDouble ==
    /\ \A x \in 1..Len(calls) :
          /\ calls[x][3] = DefaultPrec * 2^(x - 1)
          /\ calls[x][2] = fsargs
          /\ calls[x][1] = (IF x = 1 THEN "contpath" ELSE "contpath_mp")
          /\ x < Len(calls) => calls[x][3] \notin solves
    /\ fpc \in {"return", "returned"} =>
          /\ calls # <<>>
          /\ calls[Len(calls)][3] \in solves
          /\ points = SolverPoints(fsargs, calls[Len(calls)][3])
    /\ fpc = "beyond" => Len(calls) = MaxDoublings + 1

\* C8: followstrand retries at doubled precision without a cap: the calls
\* are as C8_CallsDouble says; the call returns if the solver succeeds at
\* one of the precisions, with the points of the first success; and it never
\* returns if the solver fails at all of them.
C8_RetryDoubles ==
    /\ []C8_CallsDouble
    /\ (solves # {}) => <>(fpc = "returned")
    /\ (solves = {}) => [](fpc \notin {"return", "returned"})
    /\ (solves = {}) => <>(fpc = "beyond")

\* returned after the solver failed at 53, 106 and 212
C8_Witness ==
    /\ fpc = "returned"
    /\ Len(calls) = 4
    /\ depth = 0

-----------------------------------------------------------------------------
(* Claims on the root matching of braid_in_segment *)

\* the exact roots at least distance from an approximate end
NearestSet(roots, ap) ==
    {roots[x] : x \in {x \in 1..Len(roots) :
        \A z \in 1..Len(roots) : Norm(ap, roots[z]) >= Norm(ap, roots[x])}}

Tie(roots, ap) == Cardinality(NearestSet(roots, ap)) >= 2

RootBefore(y, z) == y[1] < z[1] \/ (y[1] = z[1] /\ y[2] < z[2])

InInitialLoop == Len(initialstrands) < Len(y0aps)

\* C3: no exact root is given to two approximate ends: the roots of
\* initialstrands are pairwise distinct and so are those of finalstrands, each
\* the nearest root of its end; the error is raised at an end whose nearest
\* root was taken by an earlier end, and a loop is only left when the nearest
\* roots of all its ends differ.
C3_NoRootTakenTwice ==
    /\ \A x, z \in 1..Len(initialstrands) :
          x # z => initialstrands[x][1][2] # initialstrands[z][1][2]
    /\ \A x, z \in 1..Len(finalstrands) :
          x # z => finalstrands[x][2][2] # finalstrands[z][2][2]
    /\ \A x \in 1..Len(initialstrands) :
          /\ initialstrands[x][2][2] = y0aps[x]
          /\ initialstrands[x][1][2] \in NearestSet(y0s, y0aps[x])
    /\ \A x \in 1..Len(finalstrands) :
          /\ finalstrands[x][1][2] = y1aps[x]
          /\ finalstrands[x][2][2] \in NearestSet(y1s, y1aps[x])
    /\ (mpc = "ValueError" /\ InInitialLoop) =>
          \E x \in 1..mi : initialstrands[x][1][2] = Nearest(y0s, y0aps[mi + 1])
    /\ (mpc = "ValueError" /\ ~InInitialLoop) =>
          \E x \in 1..mi : finalstrands[x][2][2] = Nearest(y1s, y1aps[mi + 1])
    /\ mpc \in {"final", "returned"} =>
          /\ Len(initialstrands) = Len(y0aps)
          /\ \A x, z \in 1..Len(y0aps) :
                x # z => Nearest(y0s, y0aps[x]) # Nearest(y0s, y0aps[z])
    /\ mpc = "returned" =>
          /\ Len(finalstrands) = Len(y1aps)
          /\ \A x, z \in 1..Len(y1aps) :
                x # z => Nearest(y1s, y1aps[x]) # Nearest(y1s, y1aps[z])

\* the ends at x0 were matched one to one, and the error was raised at x1
C3_Witness ==
    /\ mpc = "ValueError"
    /\ Len(initialstrands) = Len(y0aps)
    /\ mi = 1
    /\ finalstrands[1][2][2] = Nearest(y1s, y1aps[2])

\* C4 as claimed: an end with two exact roots equally near is never matched;
\* the error is raised instead.
C4_TieRaises ==
    /\ \A x \in 1..Len(initialstrands) : ~Tie(y0s, y0aps[x])
    /\ \A x \in 1..Len(finalstrands) : ~Tie(y1s, y1aps[x])

\* C4 as the code has it: a tie raises nothing by itself; the end is matched
\* to the tied root that sorts first (the least by real, then imaginary
\* part), and the error is raised only for a root already taken, tie or not.
C4_TieTakesFirstRoot ==
    /\ \A x \in 1..Len(initialstrands) :
          \A z \in NearestSet(y0s, y0aps[x]) :
              z = initialstrands[x][1][2] \/ RootBefore(initialstrands[x][1][2], z)
    /\ \A x \in 1..Len(finalstrands) :
          \A z \in NearestSet(y1s, y1aps[x]) :
              z = finalstrands[x][2][2] \/ RootBefore(finalstrands[x][2][2], z)
    /\ mpc = "ValueError" =>
          LET roots == IF InInitialLoop THEN y0s ELSE y1s
              ap == IF InInitialLoop THEN y0aps[mi + 1] ELSE y1aps[mi + 1]
          IN \E y \in NearestSet(roots, ap) :
                /\ InUsed(used, y)
                /\ \A z \in NearestSet(roots, ap) : z = y \/ RootBefore(y, z)

\* both ends of a strand had two roots equally near, and the call returned
C4_Witness ==
    /\ mpc = "returned"
    /\ \E x \in 1..Len(y0aps) : Tie(y0s, y0aps[x])
    /\ \E x \in 1..Len(y1aps) : Tie(y1s, y1aps[x])

-----------------------------------------------------------------------------
(* Claims on fundamental_group *)

FreeGroupBuilt == gpc \in {"rels", "collect", "done", "AttributeError"}

\* C1: the free group has d * |vertices| generators, for the distinct
\* endpoints of the segments and the degree in y of g once the loop of
\* changes of variables has ended; with simplified=False this is the number
\* of generators of the presentation returned.
C1_GeneratorCount ==
    /\ FreeGroupBuilt =>
          /\ d = DegreeY(g)
          /\ ~MustShift(g, d, projective)
          /\ ngens = d * Cardinality({segs[x][y] : x \in 1..Len(segs), y \in 1..2})
    /\ (gpc = "done" /\ presentation[1] = "presentation") =>
          presentation[2] = DegreeY(g) * Cardinality({segs[x][y] : x \in 1..Len(segs), y \in 1..2})

\* returned unsimplified, after a change of variables, for two segments that
\* share a vertex
C1_Witness ==
    /\ gpc = "done"
    /\ presentation[1] = "presentation"
    /\ g[<<1, 1>>] = 2
    /\ Len(segs) = 2
    /\ Len(vertices) = 3
    /\ ngens = 6

Last(w) == w[Len(w)]

\* the places in rels of the relators of the segments
SegmentPlaces == {x \in 1..Len(rels) : x > (IF projective THEN 1 ELSE 0)}

\* C2: once all results are folded the list has one relator for every
\* (segment, k), and, if and only if projective, one more, the product of
\* the generators 1..d in increasing order: d * |segs| + (1 or 0) entries.
C2_RelatorList ==
    /\ (gpc \in {"collect", "done"} /\ projective) =>
          /\ rels # <<>>
          /\ rels[1] = [x \in 1..d |-> x]
    /\ (gpc \in {"collect", "done"} /\ ~projective) =>
          \A x \in 1..Len(rels) : rels[x] # [z \in 1..d |-> z]
    /\ gpc = "done" =>
          /\ Len(rels) = d * Len(segs) + (IF projective THEN 1 ELSE 0)
          /\ \A x \in 1..Len(segs) : \A k \in 0..(d - 1) :
                Cardinality({p \in SegmentPlaces :
                    /\ Last(rels[p]) = -(d * Index(vertices, segs[x][2]) + k + 1)
                    /\ Abs(rels[p][1]) \in (d * Index(vertices, segs[x][1]) + 1)
                                            ..(d * Index(vertices, segs[x][1]) + d)}) = 1

C2_Witness ==
    /\ gpc = "done"
    /\ projective
    /\ d = 2
    /\ Len(segs) = 2
    /\ Len(rels) = 5

\* the relators of one result, from the segment its arguments name
RelatorsOfResult(r) ==
    {Relator(r[2], d, Index(vertices, r[1][1][2]), Index(vertices, r[1][1][3]), k) :
        k \in 0..(d - 1)}

\* whatever the order of arrival, the relators are those of each braid with
\* the vertices of the segment it was computed for
C9_RelatorsOfOwnSegment ==
    gpc \in {"collect", "done"} =>
        /\ {rels[p] : p \in SegmentPlaces} =
              UNION {RelatorsOfResult(braidscomputed[x]) : x \in 1..folded}
        /\ \A x \in 1..Len(braidscomputed) :
              /\ braidscomputed[x][1][1][1] = g
              /\ \E z \in 1..Len(segs) :
                    segs[z] = <<braidscomputed[x][1][1][2], braidscomputed[x][1][1][3]>>
              /\ \A z \in 1..Len(braidscomputed) :
                    z # x => braidscomputed[z][1][1] # braidscomputed[x][1][1]

\* a step in which a worker ends leaves rels as it is; rels changes only in
\* a pass of the aggregating loop (or when it is set up)
C9_OnlyTheLoopWrites ==
    gpc = "collect" =>
        /\ (running' # running \/ braidscomputed' # braidscomputed) => rels' = rels
        /\ rels' # rels => folded' = folded + 1

\* C9: the relators do not depend on the order in which the workers deliver.
C9_OrderIndependent ==
    /\ []C9_RelatorsOfOwnSegment
    /\ [][C9_OnlyTheLoopWrites]_vars

\* the second segment's result came first, with another braid than the first's
C9_Witness ==
    /\ gpc = "done"
    /\ Len(segs) = 2
    /\ braidscomputed[1][1][1] = <<g, segs[2][1], segs[2][2]>>
    /\ braidscomputed[1][2] # braidscomputed[2][2]

\* the generators of the vertex of index i
Block(i) == (d * i + 1)..(d * i + d)

\* the relator the loop added for root k of the x-th result folded
RelatorAt(x, k) == rels[(IF projective THEN 1 ELSE 0) + (x - 1) * d + k + 1]

\* C11: the relator of root k of a segment from vertex i to vertex j is w1
\* followed by the inverse of generator d*j+k+1, w1 the image of the local
\* generator k+1 under the inverse of the segment's braid with each letter a
\* renamed to the letter of the same sign and absolute value d*i+|a|: the
\* letters of w1 are in the block of i, the last letter in the block of j,
\* every letter within 1..d*|vertices|, and the blocks of two vertices are
\* disjoint.
C11_RelatorBlocks ==
    gpc \in {"collect", "done"} =>
        /\ \A x \in 1..folded : \A k \in 0..(d - 1) :
              LET r == RelatorAt(x, k)
                  seg == braidscomputed[x][1][1]
                  i == Index(vertices, seg[2])
                  j == Index(vertices, seg[3])
                  image == BraidAct(<<k + 1>>, InverseWord(braidscomputed[x][2]))
              IN /\ Len(r) = Len(image) + 1
                 /\ \A p \in 1..Len(image) :
                       /\ Sign(r[p]) = Sign(image[p])
                       /\ Abs(r[p]) = d * i + Abs(image[p])
                       /\ Abs(r[p]) \in Block(i)
                 /\ Last(r) = -(d * j + k + 1)
                 /\ Abs(Last(r)) \in Block(j)
                 /\ \A p \in 1..Len(r) : Abs(r[p]) \in 1..(d * Len(vertices))
        /\ \A i, j \in 0..(Len(vertices) - 1) : i # j => Block(i) \cap Block(j) = {}

\* a relator of a segment that starts at a vertex of index above 0, whose
\* braid moves the generator: w1 has three letters, one of them an inverse
C11_Witness ==
    /\ gpc = "done"
    /\ d = 2
    /\ \E x \in 1..folded : \E k \in 0..(d - 1) :
          /\ Index(vertices, braidscomputed[x][1][1][2]) > 0
          /\ Len(RelatorAt(x, k)) = 4
          /\ \E p \in 1..3 : RelatorAt(x, k)[p] < 0

-----------------------------------------------------------------------------
(* The resampling loop of braid_from_piecewise on strands with up to
   MaxBreaks breakpoints each *)

MaxBreaks == 2
MaxPt == 1

BreakTimes == {<<1, 3>>, <<1, 2>>, <<2, 3>>}
PGrid == {<<Q(re), Q(MaxPt - re)>> : re \in 0..MaxPt}

\* the times of a set, increasing
SortedTimes(S) ==
    CHOOSE T \in [1..Cardinality(S) -> S] :
        \A x, z \in 1..Cardinality(S) : x < z => RLess(T[x], T[z])

\* the strands with samples at 0, at the times of S and at 1
StrandsOver(S) ==
    LET T == SortedTimes(S)
        n == Cardinality(S)
        time(x) == IF x = 1 THEN Q(0) ELSE IF x = n + 2 THEN Q(1) ELSE T[x - 1]
    IN {[x \in 1..(n + 2) |-> <<time(x), pts[x]>>] : pts \in [1..(n + 2) -> PGrid]}

BrokenStrands ==
    UNION {StrandsOver(S) : S \in {B \in SUBSET BreakTimes : Cardinality(B) <= MaxBreaks}}

InitResample ==
    /\ IdleFollow
    /\ IdleMatch
    /\ IdleGroup
    /\ IdleBraid

\* braid_from_piecewise is called with two strands
CallBroken ==
    /\ pc = "idle"
    /\ strands' \in [1..2 -> BrokenStrands]
    /\ pc' = "start"
    /\ UNCHANGED <<ti, totalpoints, indices, iseg, cruces, P, crossesl, braid, lastc,
                   tsel, phase, firstBraid>>
    /\ UNCHANGED <<svars, mvars, gvars>>

NextResample ==
    \/ CallBroken
    \/ Setup
    \/ ResampleStep
    \/ ClosePoints

\* the caller need not call; once called, the function runs on
SpecResample ==
    InitResample /\ [][NextResample]_vars /\ WF_vars(Setup \/ ResampleStep \/ ClosePoints)

\* the times below 1 of the samples after the first of any strand
Breakpoints ==
    UNION {{strands[j][x][1] : x \in 2..Len(strands[j])} : j \in 1..NStrands} \ {Q(1)}

\* the partition: the common start, the breakpoints, the end
Partition == <<Q(0)>> \o SortedTimes(Breakpoints) \o <<Q(1)>>

\* the point of strand val at time t: its sample there, or the point at t of
\* the line between the samples next to t
PointAt(val, t) ==
    IF \E x \in 1..Len(val) : val[x][1] = t
    THEN val[CHOOSE x \in 1..Len(val) : val[x][1] = t][2]
    ELSE LET x == CHOOSE x \in 1..(Len(val) - 1) :
                      RLess(val[x][1], t) /\ RLess(t, val[x + 1][1])
         IN Interpola(val[x][2], val[x + 1][2], val[x][1], val[x + 1][1], t)

\* after the loop every strand has a point at every time of the partition
C12_Resampled ==
    pc = "interval" =>
        \A j \in 1..NStrands :
            /\ Len(totalpoints[j]) = Cardinality(Breakpoints) + 2
            /\ \A x \in 1..Len(totalpoints[j]) :
                  x <= Len(Partition) => totalpoints[j][x] = PointAt(strands[j], Partition[x])

\* while it runs the loop has added the points of the partition so far
C12_Resampling ==
    pc = "resample" =>
        \A j \in 1..NStrands :
            /\ Len(totalpoints[j]) <= Cardinality(Breakpoints) + 1
            /\ indices[j] \in 1..(Len(strands[j]) - 1)
            /\ \A x \in 1..Len(totalpoints[j]) :
                  totalpoints[j][x] = PointAt(strands[j], Partition[x])

\* C12: the resampling loop ends, and then every strand has one point for
\* the start, one for each distinct breakpoint below 1 of any strand and one
\* for the end: its own sample at its own breakpoints, the linear
\* interpolation of its two neighbouring samples elsewhere; the strands given
\* are not modified.
C12_CommonPartition ==
    /\ []C12_Resampled
    /\ []C12_Resampling
    /\ [][pc # "idle" => strands' = strands]_vars
    /\ (pc = "start") ~> (pc = "interval")

\* three distinct breakpoints: the first strand has two of them and gets, at
\* the breakpoint of the second, a point between its own two samples
C12_Witness ==
    /\ pc = "interval"
    /\ Len(strands[1]) = 4
    /\ Len(strands[2]) = 3
    /\ Len(totalpoints[1]) = 5
    /\ strands[1][2][2] # strands[1][3][2]
    /\ totalpoints[1][3] \notin {strands[1][x][2] : x \in 1..4}
    /\ totalpoints[2][2] \notin {strands[2][x][2] : x \in 1..3}

-----------------------------------------------------------------------------
(* Claims on the crossings of one interval *)

\* the pairs of strands in order at the start of interval i (counted from 0)
\* and in the opposite order at its end
Inversions(i) ==
    {q \in (1..NStrands) \X (1..NStrands) :
        /\ LexLess(totalpoints[q[1]][i + 1], totalpoints[q[2]][i + 1])
        /\ LexLess(totalpoints[q[2]][i + 2], totalpoints[q[1]][i + 2])}

RECURSIVE InversionsBefore(_)
InversionsBefore(i) ==
    IF i = 0 THEN 0 ELSE InversionsBefore(i - 1) + Cardinality(Inversions(i - 1))

\* the rank at the end of the interval of the strand of rank s at its start
EndRank(M, s) ==
    1 + Cardinality({u \in 1..Len(M) :
                        \/ LexLess(M[u][2], M[s][2])
                        \/ (M[u][2] = M[s][2] /\ u < s)})

\* one entry of the word for every crossing recorded so far
C13_OneEntryEach ==
    /\ pc = "interval" => Len(braid) = InversionsBefore(iseg)
    /\ pc \in {"tied", "pop"} =>
          Len(braid) + Len(cruces) + Len(crossesl) = InversionsBefore(iseg + 1)
    /\ pc \in {"done", "ValueError"} =>
          Len(braid) = InversionsBefore(Len(totalpoints[1]) - 1)

\* the crossings recorded for an interval are those of its inverted pairs
C13_RecordedStep ==
    /\ (pc = "interval" /\ pc' = "tied") =>
          LET M == MSorted(totalpoints, iseg)
          IN /\ Len(cruces') = Cardinality(Inversions(iseg))
             /\ \A x \in 1..Len(cruces') :
                   LET k == cruces'[x][2]
                       j == cruces'[x][3]
                   IN /\ k < j
                      /\ LexLess(At(M, k)[1], At(M, j)[1])
                      /\ LexLess(At(M, j)[2], At(M, k)[2])
                      /\ \A z \in 1..Len(cruces') :
                            z # x => <<cruces'[z][2], cruces'[z][3]>> # <<k, j>>
    /\ (pc = "interval" /\ pc' = "interval") => Inversions(iseg) = {}

\* when the crossings of an interval are consumed P takes the rank of every
\* strand at the start of the interval to its rank at the end
C13_ReorderedStep ==
    (pc = "tied" /\ pc' = "interval") =>
        LET M == MSorted(totalpoints, iseg)
        IN \A x \in 1..NStrands : P[x] = EndRank(M, x)

\* C13: in every interval a crossing is recorded for exactly the pairs of
\* strands whose order (real part, then imaginary part) at the start is
\* inverted at the end, each crossing appends one entry to the word, and
\* when all are consumed P is the reordering of the strands from the start
\* of the interval to its end.
C13_CrossingsAreInversions ==
    /\ []C13_OneEntryEach
    /\ [][C13_RecordedStep /\ C13_ReorderedStep]_vars

\* three strands in the opposite order at the end: three crossings consumed
C13_Witness ==
    /\ pc = "interval"
    /\ iseg = 1
    /\ NStrands = 3
    /\ Cardinality(Inversions(0)) = 3
    /\ Len(braid) = 3
    /\ P = <<3, 2, 1>>

====
